---- MODULE Spec2Model ----
(***************************************************************************)
(* kubelog, package pkg/logging: the log-line classifier and renderer      *)
(* (parser.go, levels.go).                                                 *)
(*                                                                         *)
(* A Go string is a tuple of items.  An item is a one-character string,    *)
(* or ObjText, which stands for the serialized text of the JSON object     *)
(* held in the variable doc, or TsText, which stands for the text of the   *)
(* timestamp whose shape is held in the variable stamp.                    *)
(***************************************************************************)
EXTENDS Integers, Sequences, FiniteSets, TLC

VARIABLES
    line,     \* the raw input line handed to ParseLogEntry / ParseLog
    doc,      \* the JSON object that the item ObjText of the line spells
    stamp,    \* the shape of the timestamp that the item TsText spells
    pc,       \* "fed" -> "parsed" -> "rendered"; the position of the
              \* logs command and of FilterAndFormatLogs
    entry,    \* the LogEntry returned by ParseLogEntry
    out,      \* the string returned by formatLogEntry
    token,    \* the argument of a direct ParseLogLevel call
    result,   \* what that call returned
    opts,     \* the logOptions of the logs command
    fetcher,  \* the LogFetcher: ContainerName, Follow, Previous
    pod,      \* the pod as the cluster returns it: spec and status
    picked,   \* how getSingleContainerName came by the container name
    req,      \* the PodLogOptions of the log request that was streamed
    stream,   \* the lines of the reader (podLogs, or the reader argument)
    pos,      \* how many of them the scanner has passed
    written,  \* what the writer has received, one element per write
    wrote,    \* the last LogWriter.Write call: len(p), n, err
    filterLevel,  \* the threshold handed to FilterAndFormatLogs
    ret       \* what GetLogs / FilterAndFormatLogs returned

\* the state of the logs command and of its reader and writer
fetchVars == <<opts, fetcher, pod, picked, req, stream, pos, written, wrote,
               filterLevel, ret>>

vars == <<line, doc, stamp, pc, entry, out, token, result, opts, fetcher, pod,
          picked, req, stream, pos, written, wrote, filterLevel, ret>>

(***************************************************************************)
(* Bounds of the model.                                                    *)
(***************************************************************************)
\* numeric severity tokens range over -MaxLevelNum .. MaxLevelNum
MaxLevelNum == 42
\* a generated JSON object has at most MaxFields top-level fields, and at
\* most MaxFields - 1 where the fields range over a whole table
MaxFields == 3
\* TLC integers are 32 bits wide: a digit string with more significant
\* digits than this is not evaluated exactly (see AtoiValue)
MaxExactDigits == 6

(***************************************************************************)
(* levels.go                                                               *)
(***************************************************************************)
DEBUG == 0
INFO == 1
WARN == 2
ERROR == 3

LogLevels == {DEBUG, INFO, WARN, ERROR}

\* func (l LogLevel) String(): indexing the array panics outside 0..3
LevelString(l) ==
    CASE l = DEBUG -> <<"D", "E", "B", "U", "G">>
      [] l = INFO -> <<"I", "N", "F", "O">>
      [] l = WARN -> <<"W", "A", "R", "N">>
      [] l = ERROR -> <<"E", "R", "R", "O", "R">>

(***************************************************************************)
(* Strings.                                                                *)
(***************************************************************************)
ObjText == "{obj}"
TsText == "<ts>"
\* a text of the shape timeRegex matches that no layout parses: "2024-13-45 12:19:57"
BadTsText == "<2024-13-45 12:19:57>"

Digits == <<"0", "1", "2", "3", "4", "5", "6", "7", "8", "9">>
DigitSet == {Digits[i] : i \in 1..10}
DigitVal(c) == CHOOSE i \in 0..9 : Digits[i + 1] = c

LowerLetters ==
    <<"a", "b", "c", "d", "e", "f", "g", "h", "i", "j", "k", "l", "m",
      "n", "o", "p", "q", "r", "s", "t", "u", "v", "w", "x", "y", "z">>
UpperLetters ==
    <<"A", "B", "C", "D", "E", "F", "G", "H", "I", "J", "K", "L", "M",
      "N", "O", "P", "Q", "R", "S", "T", "U", "V", "W", "X", "Y", "Z">>

UpperChar(c) ==
    IF \E i \in 1..26 : LowerLetters[i] = c
    THEN UpperLetters[CHOOSE i \in 1..26 : LowerLetters[i] = c]
    ELSE c
LowerChar(c) ==
    IF \E i \in 1..26 : UpperLetters[i] = c
    THEN LowerLetters[CHOOSE i \in 1..26 : UpperLetters[i] = c]
    ELSE c

\* strings.ToUpper, strings.ToLower
ToUpper(s) == [i \in 1..Len(s) |-> UpperChar(s[i])]
ToLower(s) == [i \in 1..Len(s) |-> LowerChar(s[i])]

\* the first and the last character of the text an item spells
FirstByte(item) == IF item = ObjText THEN "{" ELSE item
LastByte(item) == IF item = ObjText THEN "}" ELSE item

\* strings.HasPrefix, strings.HasSuffix
HasPrefix(s, p) == Len(s) >= Len(p) /\ SubSeq(s, 1, Len(p)) = p
HasSuffix(s, p) == Len(s) >= Len(p) /\ SubSeq(s, Len(s) - Len(p) + 1, Len(s)) = p
StartsWithByte(s, c) == Len(s) >= 1 /\ FirstByte(s[1]) = c
EndsWithByte(s, c) == Len(s) >= 1 /\ LastByte(s[Len(s)]) = c

\* strings.Contains
Contains(s, sub) ==
    \E i \in 1..(Len(s) - Len(sub) + 1) : SubSeq(s, i, i + Len(sub) - 1) = sub

\* whitespace: what strings.TrimSpace removes, and what encoding/json skips
UnicodeSpace == {" ", "\t", "\n", "\r", "\f"}
JSONSpace == {" ", "\t", "\n", "\r"}

RECURSIVE TrimLeft(_, _)
TrimLeft(s, cut) ==
    IF s # <<>> /\ s[1] \in cut THEN TrimLeft(Tail(s), cut) ELSE s
RECURSIVE TrimRight(_, _)
TrimRight(s, cut) ==
    IF s # <<>> /\ s[Len(s)] \in cut
    THEN TrimRight(SubSeq(s, 1, Len(s) - 1), cut)
    ELSE s

\* strings.TrimSpace
TrimSpace(s) == TrimRight(TrimLeft(s, UnicodeSpace), UnicodeSpace)

(***************************************************************************)
(* strconv.Atoi, as parser.go:255 uses it.                                 *)
(***************************************************************************)
MaxInt64Text ==
    <<"9", "2", "2", "3", "3", "7", "2", "0", "3", "6",
      "8", "5", "4", "7", "7", "5", "8", "0", "7">>
MinInt64Text ==
    <<"9", "2", "2", "3", "3", "7", "2", "0", "3", "6",
      "8", "5", "4", "7", "7", "5", "8", "0", "8">>

\* a <= b for two digit strings of the same length
RECURSIVE DigitsLeq(_, _)
DigitsLeq(a, b) ==
    IF a = <<>> THEN TRUE
    ELSE IF a[1] # b[1] THEN DigitVal(a[1]) < DigitVal(b[1])
    ELSE DigitsLeq(Tail(a), Tail(b))

AtoiSign(s) == IF s # <<>> /\ s[1] \in {"+", "-"} THEN s[1] ELSE ""
AtoiDigits(s) == IF AtoiSign(s) = "" THEN s ELSE Tail(s)
SigDigits(ds) == TrimLeft(ds, {"0"})

AtoiSyntaxOk(s) ==
    /\ AtoiDigits(s) # <<>>
    /\ \A i \in 1..Len(AtoiDigits(s)) : AtoiDigits(s)[i] \in DigitSet

\* the value fits an int (64 bits)
AtoiInRange(s) ==
    LET sig == SigDigits(AtoiDigits(s))
        lim == IF AtoiSign(s) = "-" THEN MinInt64Text ELSE MaxInt64Text
    IN  \/ Len(sig) < Len(lim)
        \/ Len(sig) = Len(lim) /\ DigitsLeq(sig, lim)

RECURSIVE DigitsValue(_, _)
DigitsValue(ds, acc) ==
    IF ds = <<>> THEN acc ELSE DigitsValue(Tail(ds), acc * 10 + DigitVal(ds[1]))

\* The magnitude of a digit string.  One with more than MaxExactDigits
\* significant digits is read as 10^MaxExactDigits: the callers only order
\* the result against 10, 20 and 30.
AtoiValue(s) ==
    LET sig == SigDigits(AtoiDigits(s))
        mag == IF Len(sig) > MaxExactDigits THEN 10 ^ MaxExactDigits
               ELSE DigitsValue(sig, 0)
    IN  IF AtoiSign(s) = "-" THEN 0 - mag ELSE mag

Atoi(s) ==
    IF AtoiSyntaxOk(s) /\ AtoiInRange(s)
    THEN [n |-> AtoiValue(s), err |-> FALSE]
    ELSE [n |-> 0, err |-> TRUE]

(***************************************************************************)
(* parser.go: ParseLogLevel                                                *)
(***************************************************************************)
S_DEBUG == <<"D", "E", "B", "U", "G">>
S_TRACE == <<"T", "R", "A", "C", "E">>
S_FINE == <<"F", "I", "N", "E">>
S_INFO == <<"I", "N", "F", "O">>
S_NOTICE == <<"N", "O", "T", "I", "C", "E">>
S_WARN == <<"W", "A", "R", "N">>
S_ERR == <<"E", "R", "R">>
S_CRITICAL == <<"C", "R", "I", "T", "I", "C", "A", "L">>
S_FATAL == <<"F", "A", "T", "A", "L">>

Ok(l) == [level |-> l, err |-> FALSE]
Failed(l) == [level |-> l, err |-> TRUE]

\* NumericLevel with exclusive upper bounds
NumericLevelExclusive(numLevel) ==
    CASE numLevel < 10 -> DEBUG
      [] numLevel >= 10 /\ numLevel < 20 -> INFO
      [] numLevel >= 20 /\ numLevel < 30 -> WARN
      [] numLevel >= 30 -> ERROR

\* the numeric switch of ParseLogLevel (parser.go:256-265)
NumericLevel(numLevel) ==
    CASE numLevel <= 10 -> DEBUG
      [] numLevel > 10 /\ numLevel <= 20 -> INFO
      [] numLevel > 20 /\ numLevel <= 30 -> WARN
      [] numLevel > 30 -> ERROR

\* AliasLevel without the strings.ToUpper
AliasLevelCaseSensitive(level) ==
    CASE HasPrefix(level, S_DEBUG) \/ level = S_TRACE \/ level = S_FINE -> Ok(DEBUG)
      [] HasPrefix(level, S_INFO) \/ level = S_NOTICE -> Ok(INFO)
      [] HasPrefix(level, S_WARN) -> Ok(WARN)
      [] HasPrefix(level, S_ERR) \/ level = S_CRITICAL \/ level = S_FATAL -> Ok(ERROR)
      [] OTHER -> Failed(DEBUG)

\* the alias switch of ParseLogLevel (parser.go:268-281)
AliasLevel(level) ==
    LET normalizedLevel == ToUpper(level)
    IN  CASE HasPrefix(normalizedLevel, S_DEBUG) \/ normalizedLevel = S_TRACE
               \/ normalizedLevel = S_FINE -> Ok(DEBUG)
          [] HasPrefix(normalizedLevel, S_INFO) \/ normalizedLevel = S_NOTICE
               -> Ok(INFO)
          [] HasPrefix(normalizedLevel, S_WARN) -> Ok(WARN)
          [] HasPrefix(normalizedLevel, S_ERR) \/ normalizedLevel = S_CRITICAL
               \/ normalizedLevel = S_FATAL -> Ok(ERROR)
          [] OTHER -> Failed(DEBUG)

ParseLogLevel(level) ==
    IF ~Atoi(level).err
    THEN Ok(NumericLevel(Atoi(level).n))
    ELSE AliasLevel(level)

(***************************************************************************)
(* Decoded JSON values (the interface{} values of encoding/json):          *)
(*   [str |-> chars]            string                                     *)
(*   [num |-> m, exp |-> k]     float64 m * 10^k (k = -1: tenths)          *)
(*   [bool |-> b]               bool                                       *)
(*   [null |-> TRUE]            nil                                        *)
(*   [map |-> f]                map[string]interface{}, one-letter keys    *)
(*   [list |-> seq]             []interface{}                              *)
(***************************************************************************)
IsStr(v) == "str" \in DOMAIN v
IsNum(v) == "num" \in DOMAIN v
IsBool(v) == "bool" \in DOMAIN v
IsNull(v) == "null" \in DOMAIN v
IsMap(v) == "map" \in DOMAIN v
IsList(v) == "list" \in DOMAIN v

Str(s) == [str |-> s]
Num(m) == [num |-> m, exp |-> 0]
NumE(m, k) == [num |-> m, exp |-> k]
Null == [null |-> TRUE]

EmptyMap == [k \in {} |-> Null]

RECURSIVE Itoa(_)
\* the decimal digits of n >= 0
Itoa(n) == IF n < 10 THEN <<Digits[n + 1]>> ELSE Append(Itoa(n \div 10), Digits[(n % 10) + 1])

RECURSIVE Zeros(_)
Zeros(k) == IF k <= 0 THEN <<>> ELSE <<"0">> \o Zeros(k - 1)

Abs(n) == IF n < 0 THEN 0 - n ELSE n

\* strings.Join
RECURSIVE Join(_, _)
Join(parts, sep) ==
    IF parts = <<>> THEN <<>>
    ELSE IF Len(parts) = 1 THEN parts[1]
    ELSE parts[1] \o sep \o Join(Tail(parts), sep)

\* the elements of a finite set of strings or numbers, as a sequence
RECURSIVE SetToSeq(_)
SetToSeq(S) ==
    IF S = {} THEN <<>>
    ELSE LET x == CHOOSE y \in S : TRUE IN <<x>> \o SetToSeq(S \ {x})

\* fmt's %v of a float64 (strconv 'g', shortest digits: the exponent form is
\* used when the decimal exponent is below -4 or at least 6)
FormatFloatV(v) ==
    LET sgn == IF v.num < 0 THEN <<"-">> ELSE <<>>
        all == Itoa(Abs(v.num))
        ds == TrimRight(all, {"0"})
        k == v.exp + (Len(all) - Len(ds))
        x == Len(ds) - 1 + k
        two(n) == IF n < 10 THEN <<"0">> \o Itoa(n) ELSE Itoa(n)
    IN  IF v.num = 0 THEN <<"0">>
        ELSE IF x < -4 \/ x >= 6
        THEN sgn \o <<ds[1]>>
                 \o (IF Len(ds) > 1 THEN <<".">> \o Tail(ds) ELSE <<>>)
                 \o <<"e", IF x < 0 THEN "-" ELSE "+">> \o two(Abs(x))
        ELSE IF k >= 0 THEN sgn \o ds \o Zeros(k)
        ELSE IF Len(ds) + k > 0
        THEN sgn \o SubSeq(ds, 1, Len(ds) + k) \o <<".">>
                 \o SubSeq(ds, Len(ds) + k + 1, Len(ds))
        ELSE sgn \o <<"0", ".">> \o Zeros(0 - (Len(ds) + k)) \o ds

\* the keys of a map in sorted order (nested keys are single letters)
RECURSIVE SortedKeys(_)
SortedKeys(S) ==
    IF S = {} THEN <<>>
    ELSE LET i == CHOOSE j \in 1..26 :
                      /\ LowerLetters[j] \in S
                      /\ \A h \in 1..(j - 1) : LowerLetters[h] \notin S
         IN  <<LowerLetters[i]>> \o SortedKeys(S \ {LowerLetters[i]})

RECURSIVE Sprintv(_)
\* fmt.Sprintf("%v", val)
Sprintv(v) ==
    CASE IsStr(v) -> v.str
      [] IsNum(v) -> FormatFloatV(v)
      [] IsBool(v) -> IF v.bool THEN <<"t", "r", "u", "e">>
                      ELSE <<"f", "a", "l", "s", "e">>
      [] IsNull(v) -> <<"<", "n", "i", "l", ">">>
      [] IsMap(v) ->
           LET ks == SortedKeys(DOMAIN v.map)
           IN  <<"m", "a", "p", "[">>
                 \o Join([i \in 1..Len(ks) |->
                            <<ks[i], ":">> \o Sprintv(v.map[ks[i]])], <<" ">>)
                 \o <<"]">>
      [] IsList(v) ->
           <<"[">> \o Join([i \in 1..Len(v.list) |-> Sprintv(v.list[i])], <<" ">>)
                 \o <<"]">>

(***************************************************************************)
(* parser.go: formats, lookup tables                                       *)
(***************************************************************************)
FormatPlainText == 0
FormatJSON == 1

jsonLevelFields ==
    <<"level", "severity", "log_level", "loglevel", "@level", "levelname",
      "status", "LEVEL">>
jsonMessageFields == <<"message", "msg", "log", "text", "@message", "MESSAGE">>
jsonTimeFields ==
    <<"time", "timestamp", "@timestamp", "ts", "Time", "TIME", "datetime">>

\* the index of the first element of seq that satisfies P, 0 when none does
\* (a for-range loop that breaks at the first hit)
FirstIndex(seq, P(_)) ==
    IF \E i \in 1..Len(seq) : P(seq[i])
    THEN CHOOSE i \in 1..Len(seq) : P(seq[i]) /\ \A j \in 1..(i - 1) : ~P(seq[j])
    ELSE 0

(***************************************************************************)
(* encoding/json.Unmarshal into a map[string]interface{}: whitespace       *)
(* around the value is skipped, the value must be one object.              *)
(***************************************************************************)
Unmarshal(s) ==
    IF TrimRight(TrimLeft(s, JSONSpace), JSONSpace) = <<ObjText>>
    THEN [ok |-> TRUE, data |-> doc]
    ELSE [ok |-> FALSE, data |-> EmptyMap]

\* detectLogFormat without the decoding attempt
detectLogFormatBracesOnly(ln) ==
    LET trimmed == TrimSpace(ln)
    IN  IF StartsWithByte(trimmed, "{") /\ EndsWithByte(trimmed, "}")
        THEN FormatJSON
        ELSE FormatPlainText

\* parser.go: detectLogFormat
detectLogFormat(ln) ==
    LET trimmed == TrimSpace(ln)
    IN  IF /\ StartsWithByte(trimmed, "{")
           /\ EndsWithByte(trimmed, "}")
           /\ Unmarshal(trimmed).ok
        THEN FormatJSON
        ELSE FormatPlainText

\* data[key] != nil: the key is in the map and its value is not JSON null
NotNil(data, key) == key \in DOMAIN data /\ ~IsNull(data[key])

\* parser.go: detectLogger
detectLogger(data) ==
    CASE NotNil(data, "caller") /\ NotNil(data, "ts") -> "zap"
      [] NotNil(data, "@level") /\ NotNil(data, "@timestamp") -> "bunyan"
      [] NotNil(data, "log.level") -> "winston"
      [] NotNil(data, "levelname") -> "python"
      [] NotNil(data, "stream") /\ NotNil(data, "log") -> "docker"
      [] NotNil(data, "level") /\ NotNil(data, "msg") -> "logrus"
      [] OTHER -> "unknown"

(***************************************************************************)
(* Timestamps.  The text TsText has the shape held in stamp:               *)
(*   kind   "iso" (digits and separators), "unixdate", "ansic", "none"     *)
(*   sep1, sep2   the two date separators, "-" or "/"                      *)
(*   mid    "T" or " " between date and clock                              *)
(*   frac   the number of fractional-second digits (0: no fraction)        *)
(*   zone   "none", "Z", "colon" (+hh:mm) or "plain" (+hhmm)               *)
(*   date, clock   <<year, month, day>>, <<hour, minute, second>>          *)
(* A time.Time is [date, clock, nsec, loc, epoch]: civil fields in loc,    *)
(* or, for time.Unix, epoch = <<unit, m, k>>: m * 10^k units since 1970.   *)
(***************************************************************************)
NoStamp ==
    [kind |-> "none", sep1 |-> "-", sep2 |-> "-", mid |-> "T", frac |-> 0,
     zone |-> "none", date |-> <<1, 1, 1>>, clock |-> <<0, 0, 0>>]

\* the zero time.Time{}: January 1, year 1, 00:00:00 UTC
ZeroTime ==
    [date |-> <<1, 1, 1>>, clock |-> <<0, 0, 0>>, nsec |-> 0, loc |-> "UTC",
     epoch |-> <<>>]

IsZero(t) == t = ZeroTime

IsLeap(y) == y % 4 = 0 /\ (y % 100 # 0 \/ y % 400 = 0)
DaysIn(y, m) ==
    IF m = 2 THEN (IF IsLeap(y) THEN 29 ELSE 28)
    ELSE IF m \in {4, 6, 9, 11} THEN 30 ELSE 31

\* the range checks of time.Parse
FieldsInRange(st) ==
    /\ st.date[2] \in 1..12
    /\ st.date[3] \in 1..DaysIn(st.date[1], st.date[2])
    /\ st.clock[1] \in 0..23
    /\ st.clock[2] \in 0..59
    /\ st.clock[3] \in 0..59

\* The layouts of timeFormats, by the shapes each accepts.  frac = -1: a
\* fraction is optional and of any length (time.Parse accepts one after the
\* seconds of a layout that has none); frac = 3: exactly three digits.
timeFormats ==
    << [kind |-> "iso", sep |-> "-", mid |-> "T", frac |-> -1, zones |-> {"Z", "colon"}],
       [kind |-> "iso", sep |-> "-", mid |-> "T", frac |-> -1, zones |-> {"Z", "colon"}],
       [kind |-> "iso", sep |-> "-", mid |-> "T", frac |-> 3, zones |-> {"Z", "plain"}],
       [kind |-> "iso", sep |-> "-", mid |-> "T", frac |-> -1, zones |-> {"Z", "plain"}],
       [kind |-> "iso", sep |-> "-", mid |-> "T", frac |-> -1, zones |-> {"none"}],
       [kind |-> "iso", sep |-> "-", mid |-> " ", frac |-> -1, zones |-> {"none"}],
       [kind |-> "iso", sep |-> "/", mid |-> " ", frac |-> -1, zones |-> {"none"}],
       [kind |-> "unixdate", sep |-> "-", mid |-> " ", frac |-> -1, zones |-> {"none"}],
       [kind |-> "ansic", sep |-> "-", mid |-> " ", frac |-> -1, zones |-> {"none"}] >>

\* time.Parse(format, timeStr) succeeds
TimeParses(format, timeStr) ==
    /\ timeStr = <<TsText>>
    /\ stamp.kind = format.kind
    /\ FieldsInRange(stamp)
    /\ (format.frac = -1 \/ stamp.frac = format.frac)
    /\ (format.kind = "iso" =>
          /\ stamp.sep1 = format.sep /\ stamp.sep2 = format.sep
          /\ stamp.mid = format.mid
          /\ stamp.zone \in format.zones)

\* the time.Time that time.Parse returns for the text of stamp
ParsedTime ==
    [date |-> stamp.date, clock |-> stamp.clock,
     nsec |-> IF stamp.frac = 0 THEN 0 ELSE 1,
     loc |-> IF stamp.zone \in {"colon", "plain"} THEN "offset" ELSE "UTC",
     epoch |-> <<>>]

\* parseTimestamp answering the Unix epoch, without an error, when no layout parses
parseTimestampEpochDefault(timeStr) ==
    LET hit(format) == TimeParses(format, timeStr)
    IN  IF FirstIndex(timeFormats, hit) # 0
        THEN [t |-> ParsedTime, err |-> FALSE]
        ELSE [t |-> [date |-> <<1970, 1, 1>>, clock |-> <<0, 0, 0>>, nsec |-> 0,
                     loc |-> "UTC", epoch |-> <<>>],
              err |-> FALSE]

\* parser.go: parseTimestamp
parseTimestamp(timeStr) ==
    LET hit(format) == TimeParses(format, timeStr)
    IN  IF FirstIndex(timeFormats, hit) # 0
        THEN [t |-> ParsedTime, err |-> FALSE]
        ELSE [t |-> ZeroTime, err |-> TRUE]

\* |m * 10^k| <= the number spelled by the digit string lim
MagLeq(m, k, lim) ==
    LET ds == IF m = 0 THEN <<"0">> ELSE Itoa(Abs(m)) \o Zeros(k)
    IN  \/ Len(ds) < Len(lim)
        \/ Len(ds) = Len(lim) /\ DigitsLeq(ds, lim)

\* the largest msec for which msec * int64(time.Millisecond) is an int64:
\* (2^63 - 1) \div 10^6
MaxMillis == <<"9", "2", "2", "3", "3", "7", "2", "0", "3", "6", "8", "5", "4">>

\* The numeric branch of the timestamp loop (parser.go:193-201) for the
\* float64 m * 10^k below 2^63 in magnitude: msec := int64(numTime) drops
\* the fraction, the test msec > 1e11 is signed, and the int64 product
\* msec * 1000000 keeps its low 64 bits, written here as the unit
\* "ns mod 2^64" of the count m * 10^k * 10^6.
TimeFromNumber(v) ==
    LET m == IF v.exp < 0 THEN (IF v.num < 0 THEN 0 - (Abs(v.num) \div 10)
                                ELSE v.num \div 10)
             ELSE v.num
        k == IF v.exp < 0 THEN 0 ELSE v.exp
        big == m > 0 /\ ~MagLeq(m, k, <<"1">> \o Zeros(11))
        wraps == big /\ ~MagLeq(m, k, MaxMillis)
    IN  [date |-> <<>>, clock |-> <<>>, nsec |-> 0, loc |-> "Local",
         epoch |-> IF wraps THEN <<"ns mod 2^64", m, k>>
                   ELSE IF big THEN <<"ms", m, k>>
                   ELSE <<"s", m, k>>]

(***************************************************************************)
(* parser.go: parseJSONLog                                                 *)
(***************************************************************************)
parseJSONLog(ln) ==
    LET u == Unmarshal(ln)
        data == u.data
        levelHit(field) ==
            field \in DOMAIN data /\ ~ParseLogLevel(Sprintv(data[field])).err
        li == FirstIndex(jsonLevelFields, levelHit)
        present(field) == field \in DOMAIN data
        mi == FirstIndex(jsonMessageFields, present)
        found == IF mi = 0 THEN <<>> ELSE Sprintv(data[jsonMessageFields[mi]])
        timeHit(field) ==
            /\ field \in DOMAIN data
            /\ \/ IsNum(data[field])
               \/ IsStr(data[field]) /\ ~parseTimestamp(data[field].str).err
        ti == FirstIndex(jsonTimeFields, timeHit)
    IN  IF ~u.ok
        THEN [Level |-> DEBUG, Message |-> ln, Format |-> FormatJSON,
              Logger |-> "", Fields |-> EmptyMap, Timestamp |-> ZeroTime,
              RawLine |-> <<>>]
        ELSE [Level |-> IF li = 0 THEN DEBUG
                        ELSE ParseLogLevel(Sprintv(data[jsonLevelFields[li]])).level,
              Message |-> IF found # <<>> THEN found
                          ELSE IF "error" \in DOMAIN data
                          THEN Sprintv(data["error"])
                          ELSE ln,
              Format |-> FormatJSON,
              Logger |-> detectLogger(data),
              Fields |-> data,
              Timestamp |-> IF ti = 0 THEN ZeroTime
                            ELSE IF IsNum(data[jsonTimeFields[ti]])
                            THEN TimeFromNumber(data[jsonTimeFields[ti]])
                            ELSE parseTimestamp(data[jsonTimeFields[ti]].str).t,
              RawLine |-> ln]

(***************************************************************************)
(* parser.go: parsePlainTextLog                                            *)
(***************************************************************************)
\* timeRegex anchored at the start of the line
FindTimeAnchored(ln) ==
    IF ln # <<>> /\ (ln[1] = BadTsText \/ (ln[1] = TsText /\ stamp.kind = "iso"))
    THEN <<ln[1]>>
    ELSE <<>>

\* timeRegex.FindString(line): the pattern covers the whole text of an
\* "iso" stamp, whatever its separators, fraction and zone
FindTime(ln) ==
    LET shaped(i) == ln[i] = BadTsText \/ (ln[i] = TsText /\ stamp.kind = "iso")
    IN  IF \E i \in 1..Len(ln) : shaped(i)
        THEN <<ln[CHOOSE i \in 1..Len(ln) :
                      shaped(i) /\ \A j \in 1..(i - 1) : ~shaped(j)]>>
        ELSE <<>>

\* the alternatives of levelRegex, in the order the pattern tries them at
\* one position (WARN(?:ING)? prefers the longer match)
LevelWords ==
    << S_DEBUG, S_INFO, <<"W", "A", "R", "N", "I", "N", "G">>, S_WARN,
       <<"E", "R", "R", "O", "R">>, S_FATAL, S_TRACE >>

\* the alternative (its index in LevelWords) matching ln at i, 0 when none
LevelWordAt(ln, i) ==
    LET at(w) == i + Len(w) - 1 <= Len(ln)
                 /\ ToUpper(SubSeq(ln, i, i + Len(w) - 1)) = w
    IN  FirstIndex(LevelWords, at)

\* levelRegex.FindString(line): the leftmost match, in the line's own case
FindLevel(ln) ==
    IF \E i \in 1..Len(ln) : LevelWordAt(ln, i) # 0
    THEN LET i == CHOOSE j \in 1..Len(ln) :
                      /\ LevelWordAt(ln, j) # 0
                      /\ \A h \in 1..(j - 1) : LevelWordAt(ln, h) = 0
         IN  SubSeq(ln, i, i + Len(LevelWords[LevelWordAt(ln, i)]) - 1)
    ELSE <<>>

\* parsePlainTextLog with the message trimmed of surrounding white space
parsePlainTextLogTrimmed(ln) ==
    LET timeStr == FindTime(ln)
        match == FindLevel(ln)
    IN  [Level |-> IF match # <<>> /\ ~ParseLogLevel(match).err
                   THEN ParseLogLevel(match).level
                   ELSE DEBUG,
         Message |-> TrimSpace(ln),
         Format |-> FormatPlainText,
         Logger |-> "",
         Fields |-> EmptyMap,
         Timestamp |-> IF timeStr # <<>> /\ ~parseTimestamp(timeStr).err
                       THEN parseTimestamp(timeStr).t
                       ELSE ZeroTime,
         RawLine |-> ln]

\* parser.go: parsePlainTextLog
parsePlainTextLog(ln) ==
    LET timeStr == FindTime(ln)
        match == FindLevel(ln)
    IN  [Level |-> IF match # <<>> /\ ~ParseLogLevel(match).err
                   THEN ParseLogLevel(match).level
                   ELSE DEBUG,
         Message |-> ln,
         Format |-> FormatPlainText,
         Logger |-> "",
         Fields |-> EmptyMap,
         Timestamp |-> IF timeStr # <<>> /\ ~parseTimestamp(timeStr).err
                       THEN parseTimestamp(timeStr).t
                       ELSE ZeroTime,
         RawLine |-> ln]

\* parser.go: ParseLogEntry
ParseLogEntry(ln) ==
    IF detectLogFormat(ln) = FormatJSON
    THEN parseJSONLog(ln)
    ELSE parsePlainTextLog(ln)

(***************************************************************************)
(* parser.go: formatLogEntry, formatValue.                                 *)
(*                                                                         *)
(* A rendered string is a sequence of spans [style, text]: style names the *)
(* color.Color that wrapped the text, "" for text written as it is.        *)
(* Neighbouring unstyled spans are one piece of text.                      *)
(***************************************************************************)
Span(style, text) == <<[style |-> style, text |-> text]>>
Plain(text) == IF text = <<>> THEN <<>> ELSE Span("", text)

\* string concatenation of two rendered strings
Cat(a, b) ==
    IF a # <<>> /\ b # <<>> /\ a[Len(a)].style = "" /\ b[1].style = ""
    THEN SubSeq(a, 1, Len(a) - 1)
           \o Span("", a[Len(a)].text \o b[1].text)
           \o Tail(b)
    ELSE a \o b

\* strings.Join of rendered strings
RECURSIVE JoinStyled(_, _)
JoinStyled(parts, sep) ==
    IF parts = <<>> THEN <<>>
    ELSE IF Len(parts) = 1 THEN parts[1]
    ELSE Cat(Cat(parts[1], sep), JoinStyled(Tail(parts), sep))

Panic == Span("panic", <<>>)

\* logLevelColors without an entry for ERROR
logLevelColorsWithoutError ==
    [l \in {DEBUG, INFO, WARN} |->
        CASE l = DEBUG -> "FgCyan" [] l = INFO -> "FgGreen" [] l = WARN -> "FgYellow"]

logLevelColors ==
    [l \in {DEBUG, INFO, WARN, ERROR} |->
        CASE l = DEBUG -> "FgCyan"
          [] l = INFO -> "FgGreen"
          [] l = WARN -> "FgYellow"
          [] l = ERROR -> "FgRed"]

timestampColor == "FgBlue"
loggerColor == "FgMagenta"
keyColor == "FgCyan"
valueColor == "FgWhite"
quoteColor == "FgHiBlack"
errorColor == "FgRed+Bold"

Pad2(n) == IF n < 10 THEN <<"0">> \o Itoa(n) ELSE Itoa(n)
Pad4(n) == Zeros(4 - Len(Itoa(n))) \o Itoa(n)

\* entry.Timestamp.Format("2006-01-02 15:04:05"); an instant made by
\* time.Unix prints its local calendar fields, written here "@" unit m e k
FormatTime(t) ==
    IF t.epoch = <<>>
    THEN Pad4(t.date[1]) \o <<"-">> \o Pad2(t.date[2]) \o <<"-">> \o Pad2(t.date[3])
           \o <<" ">> \o Pad2(t.clock[1]) \o <<":">> \o Pad2(t.clock[2])
           \o <<":">> \o Pad2(t.clock[3])
    ELSE <<"@", t.epoch[1]>>
           \o (IF t.epoch[2] < 0 THEN <<"-">> ELSE <<>>)
           \o Itoa(Abs(t.epoch[2])) \o <<"e">> \o Itoa(t.epoch[3])

\* the characters that make formatValue quote a string
QuoteChars == {" ", "=", ",", "\"", "'", "[", "]", "{", "}", "(", ")"}

\* the text an item spells holds one of QuoteChars
ItemNeedsQuotes(item) ==
    \/ item \in QuoteChars
    \/ item = ObjText
    \/ item = BadTsText
    \/ item = TsText /\ (stamp.kind \in {"unixdate", "ansic"} \/ stamp.mid = " ")

\* float64(int64(val)) == val
IsIntegral(v) == v.exp >= 0 \/ v.num % 10 = 0

\* valueColor.Sprintf("%d", int64(val)) and ("%.2f", val)
FormatNumber(v) ==
    LET sgn == IF v.num < 0 THEN <<"-">> ELSE <<>>
        a == Abs(v.num)
    IN  IF v.num = 0 THEN <<"0">>
        ELSE IF v.exp >= 0 THEN sgn \o Itoa(a) \o Zeros(v.exp)
        ELSE IF a % 10 = 0 THEN sgn \o Itoa(a \div 10)
        ELSE sgn \o Itoa(a \div 10) \o <<".", Digits[(a % 10) + 1], "0">>

\* the elements of seq that satisfy keep, in order
Filter(seq, keep(_)) ==
    LET F[i \in 0..Len(seq)] ==
            IF i = 0 THEN <<>>
            ELSE IF keep(seq[i]) THEN Append(F[i - 1], seq[i]) ELSE F[i - 1]
    IN  F[Len(seq)]

RECURSIVE formatValue(_, _)
\* norder: the order in which a range over a nested map yields its keys
formatValue(v, norder) ==
    CASE IsStr(v) ->
           IF v.str = <<>> THEN Span(quoteColor, <<"\"", "\"">>)
           ELSE IF \E i \in 1..Len(v.str) : ItemNeedsQuotes(v.str[i])
           THEN Span(quoteColor, <<"\"">>) \o Span(valueColor, v.str)
                  \o Span(quoteColor, <<"\"">>)
           ELSE Span(valueColor, v.str)
      [] IsNull(v) -> Span(quoteColor, <<"n", "u", "l", "l">>)
      [] IsBool(v) -> Span(valueColor, Sprintv(v))
      [] IsNum(v) -> Span(valueColor, FormatNumber(v))
      [] IsMap(v) ->
           LET in(k) == k \in DOMAIN v.map
               ks == Filter(norder, in)
               parts == [i \in 1..Len(ks) |->
                           Cat(Cat(Span(keyColor, <<ks[i]>>), Plain(<<"=">>)),
                               formatValue(v.map[ks[i]], norder))]
           IN  Cat(Cat(Plain(<<"{">>), JoinStyled(parts, Plain(<<" ">>))),
                   Plain(<<"}">>))
      [] OTHER -> Span(valueColor, Sprintv(v))

excludeFields ==
    {"level", "severity", "log_level", "time", "timestamp", "@timestamp"}

S_error == <<"e", "r", "r", "o", "r">>
S_warn == <<"w", "a", "r", "n">>
S_failed == <<"f", "a", "i", "l", "e", "d">>

\* order: the order in which the range over the decoded record yields its
\* keys; norder: the same for a nested map
formatLogEntry(e, order, norder) ==
    LET stampPart ==
            IF ~IsZero(e.Timestamp)
            THEN <<Span(timestampColor, <<"[">> \o FormatTime(e.Timestamp) \o <<"]">>)>>
            ELSE <<>>
        levelPart ==
            <<Span(logLevelColors[e.Level], <<"[">> \o LevelString(e.Level) \o <<"]">>)>>
        loggerPart ==
            IF e.Format = FormatJSON /\ e.Logger # ""
            THEN <<Span(loggerColor, <<"[", e.Logger, "]">>)>>
            ELSE <<>>
        u == Unmarshal(e.RawLine)
        data == u.data
        present(field) == field \in DOMAIN data
        mi == FirstIndex(jsonMessageFields, present)
        msg == IF mi = 0 THEN <<>> ELSE Sprintv(data[jsonMessageFields[mi]])
        shown(k) == k \in DOMAIN data /\ k \notin excludeFields
                    /\ k # "msg" /\ k # "message"
        ks == Filter(order, shown)
        fields == [i \in 1..Len(ks) |->
                     Cat(Cat(Span(keyColor, <<ks[i]>>), Plain(<<"=">>)),
                         formatValue(data[ks[i]], norder))]
        alarm == \/ e.Level = ERROR
                 \/ Contains(ToLower(msg), S_error)
                 \/ Contains(ToLower(msg), S_warn)
                 \/ Contains(ToLower(msg), S_failed)
        msgPart == IF alarm THEN Span(errorColor, msg) ELSE Plain(msg)
        body ==
            IF e.Format = FormatJSON
            THEN IF u.ok
                 THEN JoinStyled(IF msg # <<>> THEN <<msgPart>> \o fields ELSE fields,
                                 Plain(<<" ">>))
                 ELSE Plain(e.RawLine)
            ELSE IF \/ e.Level = ERROR
                    \/ Contains(ToLower(e.RawLine), S_error)
                    \/ Contains(ToLower(e.RawLine), S_failed)
                 THEN Span(errorColor, e.RawLine)
                 ELSE Plain(e.RawLine)
    IN  IF e.Level \notin DOMAIN logLevelColors
        THEN Panic
        ELSE JoinStyled(stampPart \o levelPart \o loggerPart \o <<body>>,
                        Plain(<<" ">>))

(***************************************************************************)
(* parser.go: ParseLog = formatLogEntry(ParseLogEntry(log)), one step each *)
(***************************************************************************)
\* no logs command, no fetcher and no reader: ParseLogEntry, ParseLog and
\* ParseLogLevel are called directly
NoOptions == [container |-> "", level |-> <<>>, follow |-> FALSE, previous |-> FALSE]
NoFetcher == [ContainerName |-> "", Follow |-> FALSE, Previous |-> FALSE]
NoPod == [containers |-> <<>>, statuses |-> <<>>]
NoRequest == [Container |-> "", Follow |-> FALSE, Previous |-> FALSE, open |-> FALSE]
NoWrite == [len |-> 0, n |-> 0, err |-> FALSE, called |-> FALSE]
NoFetch ==
    /\ opts = NoOptions /\ fetcher = NoFetcher /\ pod = NoPod
    /\ picked = "" /\ req = NoRequest
    /\ stream = <<>> /\ pos = 0 /\ written = <<>> /\ wrote = NoWrite
    /\ filterLevel = DEBUG /\ ret = ""

\* the zero LogEntry{}
NoEntry ==
    [Level |-> DEBUG, Message |-> <<>>, Format |-> FormatPlainText,
     Logger |-> "", Fields |-> EmptyMap, Timestamp |-> ZeroTime,
     RawLine |-> <<>>]

NoResult == [level |-> DEBUG, err |-> FALSE, called |-> FALSE]

\* every order in which a range over a map with key set S may yield the keys
Orders(S) ==
    {o \in [1..Cardinality(S) -> S] :
        \A i, j \in 1..Cardinality(S) : i # j => o[i] # o[j]}

NestedKeys == {"a", "b"}

\* the orders of a nested map that make a difference for doc
NestedOrders ==
    IF \E k \in DOMAIN doc : IsMap(doc[k]) /\ Cardinality(DOMAIN doc[k].map) > 1
    THEN Orders(NestedKeys)
    ELSE {<<"a", "b">>}

\* entry := ParseLogEntry(log)
Classify ==
    /\ pc = "fed"
    /\ entry' = ParseLogEntry(line)
    /\ pc' = "parsed"
    /\ UNCHANGED <<line, doc, stamp, out, token, result>>
    /\ UNCHANGED fetchVars

\* return formatLogEntry(entry); called again on the same entry from
\* "rendered".  The ranges over the maps yield the keys in any order.
Render ==
    /\ pc \in {"parsed", "rendered"}
    /\ \E order \in Orders(DOMAIN doc), norder \in NestedOrders :
          out' = formatLogEntry(entry, order, norder)
    /\ pc' = "rendered"
    /\ UNCHANGED <<line, doc, stamp, entry, token, result>>
    /\ UNCHANGED fetchVars

\* a direct call ParseLogLevel(token)
LevelCall ==
    /\ pc = "level"
    /\ ~result.called
    /\ result' = [level |-> ParseLogLevel(token).level,
                  err |-> ParseLogLevel(token).err, called |-> TRUE]
    /\ UNCHANGED <<line, doc, stamp, pc, entry, out, token>>
    /\ UNCHANGED fetchVars

(***************************************************************************)
(* Inputs of the direct ParseLogLevel calls.                               *)
(***************************************************************************)
SignedText(n) == (IF n < 0 THEN <<"-">> ELSE <<>>) \o Itoa(Abs(n))

NumberTokens ==
    {SignedText(n) : n \in (0 - MaxLevelNum)..MaxLevelNum}
      \cup {<<"+">> \o Itoa(n) : n \in 0..MaxLevelNum}
      \cup {<<"0">> \o Itoa(n) : n \in 0..MaxLevelNum}
      \cup {<<"-", "0">> \o Itoa(n) : n \in 0..MaxLevelNum}

AliasWords ==
    { <<"D", "E", "B", "U", "G">>,
      <<"T", "R", "A", "C", "E">>,
      <<"F", "I", "N", "E">>,
      <<"I", "N", "F", "O">>,
      <<"N", "O", "T", "I", "C", "E">>,
      <<"W", "A", "R", "N">>,
      <<"W", "A", "R", "N", "I", "N", "G">>,
      <<"E", "R", "R">>,
      <<"E", "R", "R", "O", "R">>,
      <<"C", "R", "I", "T", "I", "C", "A", "L">>,
      <<"F", "A", "T", "A", "L">>,
      <<"D", "E", "B", "U", "G", "G", "I", "N", "G">>,
      <<"I", "N", "F", "O", "R", "M", "A", "T", "I", "O", "N">>,
      <<"E", "R", "R", "O", "N", "E", "O", "U", "S">>,
      <<"T", "R", "A", "C", "E", "S">>,
      <<"F", "I", "N", "E", "S", "T">>,
      <<"N", "O", "T", "I", "C", "E", "D">>,
      <<"C", "R", "I", "T", "I", "C", "A", "L", "S">>,
      <<"F", "A", "T", "A", "L", "I", "T", "Y">>,
      <<"I", "N", "V", "A", "L", "I", "D">>,
      <<"V", "E", "R", "B", "O", "S", "E">>,
      <<"P", "A", "N", "I", "C">>,
      <<"W", "A", "R">>,
      <<"D", "E", "B", "U">>,
      <<"X", "D", "E", "B", "U", "G">>,
      <<"E", "R">> }

TitleCase(w) == IF w = <<>> THEN w ELSE <<UpperChar(w[1])>> \o ToLower(Tail(w))
CamelCase(w) == IF w = <<>> THEN w ELSE <<LowerChar(w[1])>> \o ToUpper(Tail(w))

AliasTokens ==
    AliasWords \cup {ToLower(w) : w \in AliasWords}
      \cup {TitleCase(w) : w \in AliasWords} \cup {CamelCase(w) : w \in AliasWords}

OddTokens ==
    { <<>>,
      <<"-">>,
      <<"+">>,
      <<"1", ".", "5">>,
      <<"1", "e", "+", "0", "6">>,
      <<" ", "1", "0">>,
      <<"1", "0", " ">>,
      <<"0", "x", "1", "0">>,
      <<"1", "_", "0">>,
      <<"-", "-", "1">>,
      <<"<", "n", "i", "l", ">">>,
      <<"t", "r", "u", "e">>,
      <<"m", "a", "p", "[", "]">>,
      <<"9", "2", "2", "3", "3", "7", "2", "0", "3", "6", "8", "5", "4", "7", "7", "5", "8", "0", "7">>,
      <<"9", "2", "2", "3", "3", "7", "2", "0", "3", "6", "8", "5", "4", "7", "7", "5", "8", "0", "8">>,
      <<"-", "9", "2", "2", "3", "3", "7", "2", "0", "3", "6", "8", "5", "4", "7", "7", "5", "8", "0", "8">>,
      <<"-", "9", "2", "2", "3", "3", "7", "2", "0", "3", "6", "8", "5", "4", "7", "7", "5", "8", "0", "9">>,
      <<"9", "9", "9", "9", "9", "9", "9", "9", "9", "9", "9", "9", "9", "9", "9", "9", "9", "9", "9", "9">>,
      <<"1", "0", "0", "0", "0", "0", "0">>,
      <<"-", "1", "0", "0", "0", "0", "0", "0">>,
      <<"0", "0", "0", "0", "0", "0", "0", "0", "0", "0", "0", "0", "0", "0", "0", "0", "0", "0", "0", "0", "3", "1">>,
      <<"1", "2", "3", "4", "5", "6", "7", "8", "9", "0", "1">> }

LevelTokens == NumberTokens \cup AliasTokens \cup OddTokens

(***************************************************************************)
(* Input lines.  An input is [line, doc, stamp].                           *)
(***************************************************************************)
In(ln, d, st) == [line |-> ln, doc |-> d, stamp |-> st]

TextWords ==
    { <<"I", "N", "F", "O">>,
      <<"w", "a", "r", "n", "i", "n", "g">>,
      <<"E", "r", "r", "o", "r">>,
      <<"f", "a", "i", "l", "e", "d">>,
      <<"D", "E", "B", "U", "G">>,
      <<"i", "n", "f", "o", "r", "m", "a", "t", "i", "o", "n">>,
      <<"s", "t", "a", "r", "t", "e", "d">>,
      <<"f", "a", "t", "a", "l">>,
      <<"T", "R", "A", "C", "E">>,
      <<"x">> }

\* free text: nothing, one word, two words
TextBodies ==
    {<<>>} \cup TextWords \cup {v \o <<" ">> \o w : v, w \in TextWords}

\* lines that look like a record (most begin with a brace or end with one)
\* and do not decode
BracedBodies ==
    { <<"{", "o", "o", "p", "s", "}">>,
      <<"{", "E", "R", "R", "O", "R", "}">>,
      <<"{">>,
      <<"}">>,
      <<"{", "x">>,
      <<"x", "}">>,
      <<"{", "\"", "a", "\"", ":", "1">>,
      <<"{", "}", "}">>,
      <<"{", "i", "n", "f", "o", ":", " ", "f", "a", "i", "l", "e", "d", "}">> }

LeadPads == {<<>>, <<" ">>, <<"\f">>, <<"\t", " ">>}
TrailPads == {<<>>, <<" ">>, <<"\f">>}

Padded(bodies) == {l \o b \o t : l \in LeadPads, b \in bodies, t \in TrailPads}

TextInputs ==
    {In(ln, EmptyMap, NoStamp) :
        ln \in TextBodies \cup Padded(BracedBodies \cup {<<>>, <<"I", "N", "F", "O">>})}

\* timestamps
GoodDate == <<2024, 3, 15>>
BadDate == <<2024, 13, 15>>
Noon == <<12, 19, 57>>

IsoStamps ==
    {[kind |-> "iso", sep1 |-> s[1], sep2 |-> s[2], mid |-> m, frac |-> f,
      zone |-> z, date |-> d, clock |-> Noon] :
        s \in {<<"-", "-">>, <<"/", "/">>, <<"-", "/">>}, m \in {"T", " "},
        f \in {0, 3, 6}, z \in {"none", "Z", "colon", "plain"},
        d \in {GoodDate, BadDate}}

Stamps ==
    IsoStamps
      \cup {[NoStamp EXCEPT !.kind = "iso", !.zone = "Z"],
            [NoStamp EXCEPT !.kind = "unixdate", !.date = GoodDate],
            [NoStamp EXCEPT !.kind = "ansic", !.date = GoodDate]}

PlainStamp ==
    [kind |-> "iso", sep1 |-> "-", sep2 |-> "-", mid |-> " ", frac |-> 0,
     zone |-> "none", date |-> GoodDate, clock |-> Noon]
ZuluStamp == [PlainStamp EXCEPT !.mid = "T", !.zone = "Z"]

StampedBodies ==
    {<<TsText>>, <<BadTsText>>, <<BadTsText, " ", TsText>>, <<TsText, " ", BadTsText>>,
     <<"x", BadTsText, "x", TsText>>, <<"x", TsText, "x">>}
      \cup {<<TsText, " ">> \o w : w \in TextWords}
      \cup {w \o <<" ", TsText>> : w \in TextWords}

StampedInputs == {In(ln, EmptyMap, st) : ln \in StampedBodies, st \in Stamps}

\* JSON values
OkText == <<"o", "k">>
TextValues ==
    {Str(<<>>), Str(OkText), Str(<<"D", "i", "s", "k", " ", "E", "r", "r", "o", "r">>),
     Str(<<"w", "a", "r", "n">>), Str(<<"3", "0">>), Str(<<TsText>>)}
NumberValues ==
    {Num(0), Num(10), Num(11), Num(30), Num(31), Num(-5), NumE(305, -1),
     NumE(1, 6), Num(1647340797), NumE(1647340797, 3), NumE(1, 11),
     NumE(-2, 11), NumE(1, 13), NumE(1647340797, 6)}
NestedValues ==
    {[map |-> EmptyMap], [map |-> ("a" :> Num(1) @@ "b" :> Str(OkText))],
     [list |-> <<>>], [list |-> <<Num(1), Str(OkText)>>]}
AllValues ==
    TextValues \cup NumberValues \cup NestedValues
      \cup {Null, [bool |-> TRUE], [bool |-> FALSE]}

Range(seq) == {seq[i] : i \in 1..Len(seq)}
LevelKeys == Range(jsonLevelFields)
MessageKeys == Range(jsonMessageFields)
TimeKeys == Range(jsonTimeFields)
SignatureKeys ==
    {"caller", "ts", "@level", "@timestamp", "log.level", "levelname",
     "stream", "log", "level", "msg"}
AllKeys ==
    LevelKeys \cup MessageKeys \cup TimeKeys \cup SignatureKeys \cup {"error", "port"}

\* the records with at most n of the keys, each holding one of the values
RECURSIVE Records(_, _, _)
Records(keys, values, n) ==
    IF n = 0 THEN {EmptyMap}
    ELSE LET smaller == Records(keys, values, n - 1)
         IN  smaller \cup {r @@ (k :> v) :
                              r \in smaller, k \in keys, v \in values}

\* every key with every kind of value
TypeDocs == Records(AllKeys, AllValues, 1)

\* message candidates and the error field
MessageValues == {Str(<<>>), Str(OkText), Null}
MessageDocs ==
    Records(MessageKeys \cup {"error"}, MessageValues, MaxFields - 1)
      \cup Records({"message", "msg", "text", "error"}, MessageValues, MaxFields)

\* severity candidates
LevelValues ==
    {Str(<<"w", "a", "r", "n">>), Str(<<"b", "o", "g", "u", "s">>), Num(40)}
LevelDocs ==
    Records(LevelKeys, LevelValues, MaxFields - 1)
      \cup Records({"level", "severity", "status", "LEVEL"}, LevelValues, MaxFields)

\* logger signatures
SignatureValues == {Str(OkText), Null}
SignatureDocs ==
    Records(SignatureKeys, SignatureValues, MaxFields - 1)
      \cup Records({"caller", "ts", "levelname", "level", "msg"}, SignatureValues,
                   MaxFields)

\* the records of the test suite and of the design document
ScenarioDocs ==
    { "level" :> Str(<<"i", "n", "f", "o">>) @@ "msg" :> Str(<<"u", "p">>)
        @@ "time" :> Str(<<TsText>>) @@ "port" :> Num(8080),
      "level" :> Str(<<"e", "r", "r", "o", "r">>) @@ "ts" :> Num(1647340797)
        @@ "caller" :> Str(<<"a", ".", "g", "o", ":", "4", "2">>)
        @@ "msg" :> Str(<<"F", "a", "i", "l", "e", "d">>)
        @@ "error" :> Str(<<"b", "a", "d">>),
      "custom" :> Str(<<"f", "i", "e", "l", "d">>),
      "msg" :> Str(OkText) @@ "port" :> Num(8080)
        @@ "ctx" :> [map |-> ("a" :> Num(1) @@ "b" :> Num(2))] }

ObjectInputs ==
    {In(<<ObjText>>, d, ZuluStamp) :
        d \in TypeDocs \cup MessageDocs \cup LevelDocs \cup SignatureDocs
                \cup ScenarioDocs}

\* records with whitespace around them
PaddedDocs ==
    { EmptyMap, "msg" :> Str(OkText), "level" :> Str(<<"w", "a", "r", "n">>),
      "error" :> Str(<<>>), "msg" :> Str(<<>>) @@ "error" :> Str(OkText),
      "time" :> Str(<<TsText>>), "msg" :> Str(OkText) @@ "port" :> Num(8080) }
PaddedInputs ==
    {In(ln, d, ZuluStamp) : ln \in Padded({<<ObjText>>}), d \in PaddedDocs}

\* records with a timestamp string, in every shape
TimeDocs ==
    { "time" :> Str(<<TsText>>), "ts" :> Str(<<TsText>>) @@ "msg" :> Str(OkText),
      "time" :> Str(OkText) @@ "timestamp" :> Str(<<TsText>>) }
TimeInputs == {In(<<ObjText>>, d, st) : d \in TimeDocs, st \in Stamps}

Inputs ==
    TextInputs \cup StampedInputs \cup ObjectInputs \cup PaddedInputs \cup TimeInputs

(***************************************************************************)
(* Specifications.                                                         *)
(***************************************************************************)
Init ==
    /\ \E in \in Inputs : line = in.line /\ doc = in.doc /\ stamp = in.stamp
    /\ pc = "fed"
    /\ entry = NoEntry
    /\ out = <<>>
    /\ token = <<>>
    /\ result = NoResult
    /\ NoFetch

Next == Classify \/ Render

Spec == Init /\ [][Next]_vars

\* direct calls of ParseLogLevel
InitLevel ==
    /\ token \in LevelTokens
    /\ result = NoResult
    /\ pc = "level"
    /\ line = <<>> /\ doc = EmptyMap /\ stamp = NoStamp
    /\ entry = NoEntry
    /\ out = <<>>
    /\ NoFetch

NextLevel == LevelCall

SpecLevel == InitLevel /\ [][NextLevel]_vars

(***************************************************************************)
(* Claims.                                                                 *)
(***************************************************************************)
Parsed == pc \in {"parsed", "rendered"}

\* the line is a JSON object with white space around it
IsRecordLine(ln) ==
    LET t == TrimSpace(ln)
    IN  StartsWithByte(t, "{") /\ EndsWithByte(t, "}") /\ t = <<ObjText>>

HasLevelWord(ln) ==
    \E i \in 1..Len(ln), k \in 1..Len(LevelWords) :
        /\ i + Len(LevelWords[k]) - 1 <= Len(ln)
        /\ ToUpper(SubSeq(ln, i, i + Len(LevelWords[k]) - 1)) = LevelWords[k]

HasStamp(ln) == \E i \in 1..Len(ln) : ln[i] = TsText

\* the first of the names in fields that is a key of data, "" when none is
FirstPresent(fields, data) ==
    IF \E i \in 1..Len(fields) : fields[i] \in DOMAIN data
    THEN fields[CHOOSE i \in 1..Len(fields) :
                    /\ fields[i] \in DOMAIN data
                    /\ \A j \in 1..(i - 1) : fields[j] \notin DOMAIN data]
    ELSE ""

\* C1: ParseLogEntry and formatLogEntry return a result for every line and
\* never panic: the entry's severity is one of the four levels, rendering
\* yields a string, and a line that is no record and holds neither a
\* severity word nor a timestamp gets the worst-case entry: DEBUG, the raw
\* line as Message, FreeText, no timestamp, no logger identity.
C1_Total ==
    /\ Parsed =>
         /\ entry.Level \in LogLevels
         /\ entry.Format \in {FormatPlainText, FormatJSON}
         /\ (~IsRecordLine(line) /\ ~HasLevelWord(line) /\ ~HasStamp(line)) =>
              /\ entry.Level = DEBUG
              /\ entry.Message = line
              /\ entry.Format = FormatPlainText
              /\ IsZero(entry.Timestamp)
              /\ entry.Logger = ""
    /\ pc = "rendered" => out # Panic /\ out # <<>>

\* a brace-delimited line that does not decode, classified and rendered
C1_Witness ==
    /\ pc = "rendered"
    /\ StartsWithByte(line, "{") /\ EndsWithByte(line, "}")
    /\ ~IsRecordLine(line)
    /\ entry.Message = line
    /\ out # Panic

\* C2: for every non-empty raw line the entry's Message is non-empty.
C2_MessageNonEmpty == (Parsed /\ line # <<>>) => entry.Message # <<>>

\* C3: for a structured record with at least one recognized message field,
\* Message is exactly the stringified value of the first such field in the
\* order message, msg, log, text, @message, MESSAGE.
C3_FirstMessageField ==
    (Parsed /\ entry.Format = FormatJSON /\ FirstPresent(jsonMessageFields, doc) # "")
      => entry.Message = Sprintv(doc[FirstPresent(jsonMessageFields, doc)])

\* C4: rendering the same entry again yields the same output.
C4_RenderDeterministic ==
    [][(pc = "rendered" /\ pc' = "rendered") => out' = out]_vars

SignatureOf(data) ==
    LET has(k) == k \in DOMAIN data
    IN  IF has("caller") /\ has("ts") THEN "zap"
        ELSE IF has("@level") /\ has("@timestamp") THEN "bunyan"
        ELSE IF has("log.level") THEN "winston"
        ELSE IF has("levelname") THEN "python"
        ELSE IF has("stream") /\ has("log") THEN "docker"
        ELSE IF has("level") /\ has("msg") THEN "logrus"
        ELSE "unknown"

\* C6: detectLogger returns the identity of the first signature, in the
\* order zap, bunyan, winston, python, docker, logrus, whose named fields
\* all occur as keys of the record, whatever their values, and "unknown"
\* when there is none.
C6_FirstSignature ==
    (Parsed /\ Unmarshal(line).ok /\ entry.Format = FormatJSON)
      => entry.Logger = SignatureOf(doc)

C7_Bucket(n) ==
    IF n <= 10 THEN DEBUG ELSE IF n <= 20 THEN INFO ELSE IF n <= 30 THEN WARN ELSE ERROR

BeginsWith(t, w) ==
    Len(t) >= Len(w) /\ \A i \in 1..Len(w) : UpperChar(t[i]) = w[i]
Spells(t, w) == Len(t) = Len(w) /\ BeginsWith(t, w)

SameButCase(a, b) ==
    Len(a) = Len(b) /\ \A i \in 1..Len(a) : UpperChar(a[i]) = UpperChar(b[i])

C8_Alias(t) ==
    IF BeginsWith(t, S_DEBUG) \/ Spells(t, S_TRACE) \/ Spells(t, S_FINE) THEN Ok(DEBUG)
    ELSE IF BeginsWith(t, S_INFO) \/ Spells(t, S_NOTICE) THEN Ok(INFO)
    ELSE IF BeginsWith(t, S_WARN) THEN Ok(WARN)
    ELSE IF BeginsWith(t, S_ERR) \/ Spells(t, S_CRITICAL) \/ Spells(t, S_FATAL)
    THEN Ok(ERROR)
    ELSE Failed(DEBUG)

SeverityOf(data) ==
    LET good == {i \in 1..Len(jsonLevelFields) :
                   /\ jsonLevelFields[i] \in DOMAIN data
                   /\ ~ParseLogLevel(Sprintv(data[jsonLevelFields[i]])).err}
    IN  IF good = {} THEN DEBUG
        ELSE ParseLogLevel(
               Sprintv(data[jsonLevelFields[CHOOSE i \in good :
                                              \A j \in good : i <= j]])).level

\* C9: for a structured record the severity is the classification of the
\* first field, in the order of jsonLevelFields, that is present and whose
\* stringified value classifies; DEBUG when there is none.
C9_SeverityScan ==
    (Parsed /\ entry.Format = FormatJSON) => entry.Level = SeverityOf(doc)

\* C10: for a structured record with none of the message fields, Message
\* is the stringified error field when there is one and the raw line
\* otherwise; with a message field present neither fallback is used.
C10_MessageFallback ==
    (Parsed /\ entry.Format = FormatJSON) =>
      IF FirstPresent(jsonMessageFields, doc) = ""
      THEN entry.Message = (IF "error" \in DOMAIN doc THEN Sprintv(doc["error"])
                            ELSE line)
      ELSE \/ entry.Message = Sprintv(doc[FirstPresent(jsonMessageFields, doc)])
           \/ /\ entry.Message # line
              /\ "error" \in DOMAIN doc => entry.Message # Sprintv(doc["error"])

\* the instant the scan of C11 yields for data
TimestampOf(data) ==
    LET parses(v) == IsNum(v) \/ (IsStr(v) /\ ~parseTimestamp(v.str).err)
        good == {i \in 1..Len(jsonTimeFields) :
                   /\ jsonTimeFields[i] \in DOMAIN data
                   /\ parses(data[jsonTimeFields[i]])}
        v == data[jsonTimeFields[CHOOSE i \in good : \A j \in good : i <= j]]
    IN  IF good = {} THEN ZeroTime
        ELSE IF IsNum(v) THEN TimeFromNumber(v)
        ELSE parseTimestamp(v.str).t

\* C11: for a structured record the timestamp comes from the first field, in
\* the order of jsonTimeFields, that is present and whose value parses (a
\* number always, a string when a known format matches); fields that do not
\* parse are skipped, and the timestamp is absent when none parses.
C11_TimestampScan ==
    (Parsed /\ entry.Format = FormatJSON) => entry.Timestamp = TimestampOf(doc)

\* the strings the entry's timestamp may be parsed from: the match of
\* timeRegex in a free-text line, the string values of the time fields of a
\* decoded record
TimeTexts ==
    IF entry.Format = FormatPlainText
    THEN {FindTime(line)} \ {<<>>}
    ELSE IF Unmarshal(line).ok
    THEN {doc[f].str : f \in {g \in Range(jsonTimeFields) :
                                 g \in DOMAIN doc /\ IsStr(doc[g])}}
    ELSE {}

NumericTime == \E f \in Range(jsonTimeFields) : f \in DOMAIN doc /\ IsNum(doc[f])

\* C12: parseTimestamp succeeds exactly when one of the known formats parses
\* the string and then returns the instant the string spells; otherwise it
\* returns an error, the entry's timestamp stays absent and no timestamp
\* segment is rendered.
C12_ParseTimestamp ==
    Parsed =>
      /\ \A s \in TimeTexts :
           /\ parseTimestamp(s).err
                <=> \A i \in 1..Len(timeFormats) : ~TimeParses(timeFormats[i], s)
           /\ ~parseTimestamp(s).err =>
                /\ parseTimestamp(s).t.date = stamp.date
                /\ parseTimestamp(s).t.clock = stamp.clock
      /\ ((\A s \in TimeTexts : parseTimestamp(s).err) /\ ~NumericTime) =>
           /\ IsZero(entry.Timestamp)
           /\ pc = "rendered" => out[1].style # timestampColor

\* a string no format parses was tried and the rendered line has no timestamp
C12_Witness ==
    /\ pc = "rendered"
    /\ TimeTexts # {}
    /\ \A s \in TimeTexts : parseTimestamp(s).err
    /\ IsZero(entry.Timestamp)
    /\ out[1].style # timestampColor

\* \w of the regular expressions: a letter, a digit or an underscore
WordByte(c) ==
    c \in DigitSet \cup {"_"} \cup Range(LowerLetters) \cup Range(UpperLetters)

\* the text of a timestamp begins and ends with a letter or a digit
WordEdge(item) ==
    item \in {TsText, BadTsText} \/ WordByte(FirstByte(item)) \/ WordByte(LastByte(item))

\* one of the severity words stands at i..j of ln with a word boundary on
\* both sides
BoundedWordAt(ln, i, j) ==
    /\ 1 <= i /\ i <= j /\ j <= Len(ln)
    /\ \E k \in 1..Len(LevelWords) : ToUpper(SubSeq(ln, i, j)) = LevelWords[k]
    /\ (i = 1 \/ ~WordEdge(ln[i - 1]))
    /\ (j = Len(ln) \/ ~WordEdge(ln[j + 1]))

\* the severity of the leftmost word-bounded severity word of ln
BoundedSeverity(ln) ==
    LET starts == {i \in 1..Len(ln) : \E j \in i..Len(ln) : BoundedWordAt(ln, i, j)}
        i == CHOOSE h \in starts : \A g \in starts : h <= g
        j == CHOOSE h \in i..Len(ln) : BoundedWordAt(ln, i, h)
    IN  IF starts = {} THEN DEBUG
        ELSE ParseLogLevel(SubSeq(ln, i, j)).level

\* C13: for a free-text line the severity is the classification of the
\* leftmost case-insensitive match, at word boundaries on both sides, of
\* DEBUG, INFO, WARN, WARNING, ERROR, FATAL or TRACE, and DEBUG when the
\* line holds no such word-bounded token.
C13_WordBoundedSeverity ==
    (Parsed /\ entry.Format = FormatPlainText) => entry.Level = BoundedSeverity(line)

\* the item is a timestamp-shaped text: yyyy-mm-dd or yyyy/mm/dd, 'T' or a
\* space, hh:mm:ss, optional fraction, optional zone
TimeShaped(item) == item = BadTsText \/ (item = TsText /\ stamp.kind = "iso")

\* the instant of the leftmost timestamp-shaped text of ln, the zero instant
\* when there is none or no format parses it
LeftmostTime(ln) ==
    LET at == {i \in 1..Len(ln) : TimeShaped(ln[i])}
        i == CHOOSE h \in at : \A g \in at : h <= g
    IN  IF at = {} THEN ZeroTime
        ELSE IF \E k \in 1..Len(timeFormats) : TimeParses(timeFormats[k], <<ln[i]>>)
        THEN ParsedTime
        ELSE ZeroTime

\* C14: for a free-text line the timestamp is that of the leftmost
\* timestamp-shaped substring, wherever it stands in the line, when a known
\* format parses that substring; it is absent otherwise.
C14_LeftmostTimestamp ==
    (Parsed /\ entry.Format = FormatPlainText) => entry.Timestamp = LeftmostTime(line)

\* a timestamp that does not stand at the start of the line is recorded
C14_Witness ==
    /\ Parsed /\ entry.Format = FormatPlainText
    /\ Len(line) >= 2 /\ ~TimeShaped(line[1])
    /\ \E i \in 2..Len(line) : line[i] = TsText
    /\ ~IsZero(entry.Timestamp)
    /\ entry.Timestamp.date = stamp.date

\* C15: for every free-text line Message and RawLine both equal the whole
\* input line: the timestamp and the severity word stay in the message and
\* nothing is cut off.
C15_MessageVerbatim ==
    (Parsed /\ entry.Format = FormatPlainText) =>
      /\ entry.Message = line
      /\ entry.RawLine = line

\* a line with a recorded timestamp and a severity word keeps both
C15_Witness ==
    /\ Parsed /\ entry.Format = FormatPlainText
    /\ ~IsZero(entry.Timestamp) /\ entry.Level = ERROR
    /\ \E i \in 1..Len(line) : line[i] = TsText
    /\ entry.Message = line

LoggerIdentities ==
    {"zap", "bunyan", "winston", "python", "docker", "logrus", "unknown"}

\* C16: a FreeText entry has an empty logger identity and no Fields; a
\* StructuredRecord entry has one of the seven logger identities and its
\* Fields are all the decoded top-level fields of the line.
C16_Shape ==
    Parsed =>
      /\ entry.Format = FormatPlainText =>
           (entry.Logger = "" /\ entry.Fields = EmptyMap)
      /\ entry.Format = FormatJSON =>
           (entry.Logger \in LoggerIdentities /\ entry.Fields = doc)

\* the keys of S in the order in which out shows them as keys
ShownKeys(S) ==
    LET at == {i \in 1..Len(out) :
                 /\ out[i].style = keyColor
                 /\ Len(out[i].text) = 1 /\ out[i].text[1] \in S}
        F[n \in 0..Len(out)] ==
            IF n = 0 THEN <<>>
            ELSE IF n \in at THEN Append(F[n - 1], out[n].text[1]) ELSE F[n - 1]
    IN  F[Len(out)]

ShownNestedOrder ==
    IF Len(ShownKeys(NestedKeys)) = Cardinality(NestedKeys)
    THEN ShownKeys(NestedKeys)
    ELSE <<"a", "b">>

\* The lines that are made of the segments of C17 in their order, joined by
\* single spaces, for the entry and the fields that out shows: the logger
\* tag and the message may be there or not, the message in either style.
SegmentedLines ==
    LET stampSeg ==
            IF IsZero(entry.Timestamp) THEN <<>>
            ELSE <<Span(timestampColor,
                        <<"[">> \o FormatTime(entry.Timestamp) \o <<"]">>)>>
        levelSeg ==
            <<Span(logLevelColors[entry.Level],
                   <<"[">> \o LevelString(entry.Level) \o <<"]">>)>>
        loggerSegs == {<<>>, <<Span(loggerColor, <<"[", entry.Logger, "]">>)>>}
        texts == {entry.Message} \ {<<>>}
        messageSegs ==
            {<<>>} \cup {<<Plain(m)>> : m \in texts}
                   \cup {<<Span(errorColor, m)>> : m \in texts}
        ks == ShownKeys(DOMAIN doc)
        fieldSegs ==
            [i \in 1..Len(ks) |->
                Cat(Cat(Span(keyColor, <<ks[i]>>), Plain(<<"=">>)),
                    formatValue(doc[ks[i]], ShownNestedOrder))]
    IN  {JoinStyled(stampSeg \o levelSeg \o lg \o ms \o fieldSegs, Plain(<<" ">>)) :
            lg \in loggerSegs, ms \in messageSegs}

\* C17: the rendered line is the segments timestamp, severity tag, logger
\* tag, message, key=value fields in this order, joined by single spaces;
\* the severity tag is always there, the timestamp exactly when the entry
\* has one, and a segment that does not apply leaves nothing behind.
C17_Segments == pc = "rendered" => out \in SegmentedLines

LoggerTags == {i \in 1..Len(out) : out[i].style = loggerColor}

\* C18: the rendered line has a logger tag exactly when the entry is a
\* StructuredRecord whose logger identity is not "unknown", and the tag is
\* then [identity]; a record matching no signature and a free-text entry
\* are rendered without one.
C18_LoggerTag ==
    pc = "rendered" =>
      /\ LoggerTags # {}
           <=> (entry.Format = FormatJSON /\ entry.Logger \notin {"", "unknown"})
      /\ \A i \in LoggerTags : out[i].text = <<"[", entry.Logger, "]">>

AlarmStyled == \E i \in 1..Len(out) : out[i].style = errorColor

\* the rendered line has a message segment: always for free text, for a
\* decoded record when its first message field is not empty
MessageShown ==
    \/ entry.Format = FormatPlainText
    \/ /\ Unmarshal(line).ok
       /\ FirstPresent(jsonMessageFields, doc) # ""
       /\ Sprintv(doc[FirstPresent(jsonMessageFields, doc)]) # <<>>

\* C19: the message segment is alarm-styled exactly when the severity is
\* ERROR or the message contains "error" or "failed" in any case, for
\* free-text and structured entries alike; otherwise nothing is alarm-styled.
C19_AlarmStyle ==
    pc = "rendered" =>
      LET alarming == \/ entry.Level = ERROR
                      \/ Contains(ToLower(entry.Message), S_error)
                      \/ Contains(ToLower(entry.Message), S_failed)
      IN  /\ AlarmStyled => alarming
          /\ (alarming /\ MessageShown) => AlarmStyled

\* the keys whose values gave the entry its severity, message and timestamp
ConsumedKeys(data) ==
    LET lv == {i \in 1..Len(jsonLevelFields) :
                 /\ jsonLevelFields[i] \in DOMAIN data
                 /\ ~ParseLogLevel(Sprintv(data[jsonLevelFields[i]])).err}
        tm == {i \in 1..Len(jsonTimeFields) :
                 /\ jsonTimeFields[i] \in DOMAIN data
                 /\ \/ IsNum(data[jsonTimeFields[i]])
                    \/ /\ IsStr(data[jsonTimeFields[i]])
                       /\ ~parseTimestamp(data[jsonTimeFields[i]].str).err}
        mk == FirstPresent(jsonMessageFields, data)
    IN  {jsonLevelFields[i] : i \in {h \in lv : \A g \in lv : h <= g}}
          \cup {jsonTimeFields[i] : i \in {h \in tm : \A g \in tm : h <= g}}
          \cup (IF mk # "" /\ Sprintv(data[mk]) # <<>> THEN {mk}
                ELSE IF "error" \in DOMAIN data THEN {"error"}
                ELSE {})

Occurrences(seq, x) == Cardinality({i \in 1..Len(seq) : seq[i] = x})

\* C20: in the rendering of a structured entry no key whose value was
\* consumed for the severity, the message or the timestamp appears among
\* the key=value pairs, and every other top-level field of the record
\* appears exactly once.
C20_RemainingFields ==
    (pc = "rendered" /\ entry.Format = FormatJSON) =>
      \A k \in DOMAIN doc :
          Occurrences(ShownKeys(DOMAIN doc), k)
            = (IF k \in ConsumedKeys(doc) THEN 0 ELSE 1)

\* the characters of the rendered line, styles dropped
RenderedText ==
    LET F[n \in 0..Len(out)] == IF n = 0 THEN <<>> ELSE F[n - 1] \o out[n].text
    IN  F[Len(out)]

\* the tags that may stand before the message of the entry, with the
\* separator that follows them
TagPrefixes ==
    LET stampTag ==
            IF IsZero(entry.Timestamp) THEN <<>>
            ELSE <<"[">> \o FormatTime(entry.Timestamp) \o <<"]", " ">>
        levelTag == <<"[">> \o LevelString(entry.Level) \o <<"]", " ">>
    IN  {stampTag \o levelTag, stampTag \o levelTag \o <<"[", entry.Logger, "]", " ">>}

\* C21: ParseLog(line) renders ParseLogEntry(line): after the tags the
\* rendered line carries the Message of the entry, also when the Message
\* came from the `error` field or from the raw-line fallback.
C21_MessageRendered ==
    pc = "rendered" =>
      \E pfx \in TagPrefixes : HasPrefix(RenderedText, pfx \o entry.Message)


\* the number the timestamp scan of a decoded record stops at, if any
TimeNumbers ==
    LET present == {i \in 1..Len(jsonTimeFields) : jsonTimeFields[i] \in DOMAIN doc}
        tried == {i \in present :
                    \A j \in present :
                        j < i => (IsStr(doc[jsonTimeFields[j]])
                                  /\ parseTimestamp(doc[jsonTimeFields[j]].str).err)}
    IN  {doc[jsonTimeFields[i]] : i \in {j \in tried : IsNum(doc[jsonTimeFields[j]])}}

\* v as a count of whole units: the digits m and the power of ten k
WholeUnits(v) ==
    IF v.exp < 0
    THEN <<IF v.num < 0 THEN 0 - (Abs(v.num) \div 10) ELSE v.num \div 10, 0>>
    ELSE <<v.num, v.exp>>

\* C28: a numeric timestamp v is the instant v milliseconds after the epoch
\* when the magnitude of v exceeds 10^11 and v whole seconds after the epoch
\* otherwise, for every v, with no wrap-around or sign change.
C28_NumericTimestamp ==
    (Parsed /\ entry.Format = FormatJSON /\ Unmarshal(line).ok) =>
      \A v \in TimeNumbers :
        LET w == WholeUnits(v)
            unit == IF MagLeq(w[1], w[2], <<"1">> \o Zeros(11)) THEN "s" ELSE "ms"
        IN  entry.Timestamp.epoch = <<unit, w[1], w[2]>>


(***************************************************************************)
(* The logs command: cmd/logs.go runLogs, pkg/kubernetes/logs.go GetLogs   *)
(* and LogWriter.Write; pkg/logging/filter.go FilterAndFormatLogs.         *)
(* A line of a reader is a string as before; the item LongText stands for  *)
(* 64 * 1024 bytes without a line end.                                     *)
(***************************************************************************)
\* a reader holds at most MaxLines lines
MaxLines == 2

LongText == "<64K>"

\* bufio.Scanner with the default buffer: a line that does not fit in
\* MaxScanTokenSize bytes is no token, Scan stops with ErrTooLong
TooLong(ln) == \E i \in 1..Len(ln) : ln[i] = LongText

\* parser.go: ParseLog, with the orders its ranges over the maps take
ParseLog(log, order, norder) == formatLogEntry(ParseLogEntry(log), order, norder)

\* logs.go: getSingleContainerName, given whether the pod could be fetched
\* and what the prompt returned (0: interrupted or failed, i: option i)
getSingleContainerName(podOk, answer) ==
    IF ~podOk \/ Len(pod.containers) = 0
    THEN [name |-> "", err |-> TRUE, how |-> ""]
    ELSE IF Len(pod.containers) = 1
    THEN [name |-> pod.containers[1], err |-> FALSE, how |-> "single"]
    ELSE IF answer = 0
    THEN [name |-> "", err |-> TRUE, how |-> "prompt"]
    ELSE [name |-> pod.containers[answer], err |-> FALSE, how |-> "prompt"]

\* the answer `>= 0` in place of `> 0`
hasPreviousContainerAlways(containerName, podOk) ==
    LET at == {i \in 1..Len(pod.statuses) : pod.statuses[i].Name = containerName}
    IN  IF ~podOk \/ at = {}
        THEN [has |-> FALSE, err |-> TRUE]
        ELSE [has |-> TRUE, err |-> FALSE]

\* logs.go: hasPreviousContainer, given whether the pod could be fetched
hasPreviousContainer(containerName, podOk) ==
    LET at == {i \in 1..Len(pod.statuses) : pod.statuses[i].Name = containerName}
        first == CHOOSE i \in at : \A j \in at : i <= j
    IN  IF ~podOk \/ at = {}
        THEN [has |-> FALSE, err |-> TRUE]
        ELSE [has |-> pod.statuses[first].RestartCount > 0, err |-> FALSE]

\* n := the length of the trimmed line
LogWriterWriteTrimmedLength(p, writeOk, order, norder) ==
    LET logLine == TrimSpace(p)
    IN  IF logLine = <<>>
        THEN [n |-> Len(logLine), err |-> FALSE, chunks |-> <<>>]
        ELSE [n |-> Len(logLine), err |-> ~writeOk,
              chunks |-> IF writeOk
                         THEN <<Cat(ParseLog(logLine, order, norder), Plain(<<"\n">>))>>
                         ELSE <<>>]

\* logs.go: LogWriter.Write, given whether the wrapped writer accepts the
\* write; chunks is what the wrapped writer receives
LogWriterWrite(p, writeOk, order, norder) ==
    LET logLine == TrimSpace(p)
    IN  IF logLine = <<>>
        THEN [n |-> Len(p), err |-> FALSE, chunks |-> <<>>]
        ELSE [n |-> Len(p), err |-> ~writeOk,
              chunks |-> IF writeOk
                         THEN <<Cat(ParseLog(logLine, order, norder), Plain(<<"\n">>))>>
                         ELSE <<>>]

\* Inputs of the logs command: the pods, the options, the fetchers that a
\* caller sets up itself, and the readers.
Status(name, restarts) == [Name |-> name, RestartCount |-> restarts]
Pods ==
    { [containers |-> <<"app">>, statuses |-> <<Status("app", 2)>>],
      [containers |-> <<"app", "sidecar">>, statuses |-> <<Status("sidecar", 0)>>],
      [containers |-> <<>>, statuses |-> <<>>] }
CommandOptions ==
    { [container |-> c, level |-> LevelString(l), follow |-> FALSE, previous |-> p] :
        c \in {"", "sidecar"}, l \in {DEBUG, ERROR}, p \in BOOLEAN }
Fetchers ==
    { [ContainerName |-> c, Follow |-> FALSE, Previous |-> p] :
        c \in {"", "app", "sidecar", "ghost"}, p \in BOOLEAN }
StreamDocs ==
    { "level" :> Str(<<"e", "r", "r", "o", "r">>) @@ "msg" :> Str(<<"b", "o", "o", "m">>),
      "user" :> Str(<<"a">>) @@ "port" :> Num(80) }
StreamLines ==
    { <<>>, <<" ", "o", "k", " ">>, <<"W", "A", "R", "N", " ", "x">>,
      <<ObjText>>, <<LongText>> }
Streams == UNION {[1..n -> StreamLines] : n \in 0..MaxLines}

\* the validation skipped
containerExistsUnchecked(name) == name = name

\* logs.go: the loop of GetLogs over pod.Spec.Containers
containerExists(name) ==
    \E i \in 1..Len(pod.containers) : pod.containers[i] = name

\* cmd/logs.go: runLogs up to the call of GetLogs.  options.container and
\* options.level are read by getLogOptions and not used.
RunLogs ==
    /\ pc = "command"
    /\ \E clientOk \in BOOLEAN :
         IF clientOk
         THEN /\ fetcher' = [ContainerName |-> "", Follow |-> opts.follow,
                             Previous |-> opts.previous]
              /\ pc' = "fetcher"
              /\ ret' = ret
         ELSE /\ ret' = "error getting kubernetes client"
              /\ pc' = "returned"
              /\ fetcher' = fetcher
    /\ UNCHANGED <<line, doc, stamp, entry, out, token, result, opts, pod,
                   picked, req, stream, pos, written, wrote, filterLevel>>

\* logs.go: GetLogs up to the scanner loop.  Each of the three requests for
\* the pod and the opening of the stream may fail; the reader that opens
\* holds any stream of lines.
GetLogs ==
    /\ pc = "fetcher"
    /\ \E ok1, ok2, ok3, opens \in BOOLEAN, answer \in 0..Len(pod.containers) :
         LET sel == IF fetcher.ContainerName = ""
                    THEN getSingleContainerName(ok1, answer)
                    ELSE [name |-> fetcher.ContainerName, err |-> FALSE, how |-> ""]
             prev == hasPreviousContainer(sel.name, ok3)
             failure ==
                 IF sel.err THEN "failed to get container name"
                 ELSE IF ~ok2 THEN "error fetching pod details"
                 ELSE IF ~containerExists(sel.name) THEN "container not found"
                 ELSE IF fetcher.Previous /\ prev.err
                      THEN "failed to check for previous container"
                 ELSE IF fetcher.Previous /\ ~prev.has
                      THEN "no previous terminated container found"
                 ELSE IF ~opens THEN "error opening log stream"
                 ELSE ""
         IN  /\ picked' = sel.how
             /\ fetcher' = IF sel.err THEN fetcher
                           ELSE [fetcher EXCEPT !.ContainerName = sel.name]
             /\ req' = IF failure \in {"", "error opening log stream"}
                       THEN [Container |-> sel.name, Follow |-> fetcher.Follow,
                             Previous |-> fetcher.Previous, open |-> failure = ""]
                       ELSE req
             /\ ret' = failure
             /\ pc' = IF failure = "" THEN "stream" ELSE "returned"
             /\ IF failure = "" THEN stream' \in Streams ELSE stream' = stream
    /\ UNCHANGED <<line, doc, stamp, entry, out, token, result, opts, pod,
                   pos, written, wrote, filterLevel>>

\* one turn of the scanner loop of GetLogs: scanner.Scan(), then
\* logWriter.Write([]byte(scanner.Text()))
ScanWrite ==
    /\ pc = "stream"
    /\ pos < Len(stream)
    /\ \E readOk, writeOk \in BOOLEAN, order \in Orders(DOMAIN doc),
          norder \in NestedOrders :
         LET p == stream[pos + 1]
         IN  IF ~readOk \/ TooLong(p)
             THEN /\ ret' = IF readOk
                            THEN "error reading log stream: token too long"
                            ELSE "error reading log stream"
                  /\ pc' = "returned"
                  /\ UNCHANGED <<line, entry, out, pos, written, wrote>>
             ELSE \E w \in {LogWriterWrite(p, writeOk, order, norder)} :
                  /\ pos' = pos + 1
                  /\ wrote' = [len |-> Len(p), n |-> w.n, err |-> w.err,
                               called |-> TRUE]
                  /\ written' = written \o w.chunks
                  /\ IF TrimSpace(p) = <<>>
                     THEN UNCHANGED <<line, entry, out>>
                     ELSE /\ line' = TrimSpace(p)
                          /\ entry' = ParseLogEntry(line')
                          /\ out' = formatLogEntry(entry', order, norder)
                  /\ ret' = IF w.err THEN "error writing log line" ELSE ret
                  /\ pc' = IF w.err THEN "returned" ELSE pc
    /\ UNCHANGED <<doc, stamp, token, result, opts, fetcher, pod, picked, req,
                   stream, filterLevel>>

\* the reader is at its end: scanner.Scan() is false, scanner.Err() tells
\* whether the last read failed
EndOfStream ==
    /\ pc = "stream"
    /\ pos = Len(stream)
    /\ \E readOk \in BOOLEAN :
         ret' = IF readOk THEN "nil" ELSE "error reading log stream"
    /\ pc' = "returned"
    /\ UNCHANGED <<line, doc, stamp, entry, out, token, result, opts, fetcher,
                   pod, picked, req, stream, pos, written, wrote, filterLevel>>

\* filter.go: one turn of the loop of FilterAndFormatLogs.  The error of
\* Fprintf is dropped; the writer receives the Message and a line end in
\* the colour of the severity.
FilterLine ==
    /\ pc = "filter"
    /\ pos < Len(stream)
    /\ \E readOk \in BOOLEAN :
         LET ln == stream[pos + 1]
         IN  IF ~readOk \/ TooLong(ln)
             THEN /\ ret' = IF readOk THEN "bufio.Scanner: token too long"
                            ELSE "read error"
                  /\ pc' = "returned"
                  /\ UNCHANGED <<line, entry, pos, written>>
             ELSE /\ line' = ln
                  /\ entry' = ParseLogEntry(ln)
                  /\ pos' = pos + 1
                  /\ written' =
                       IF entry'.Level >= filterLevel
                       THEN Append(written,
                                   Span(logLevelColors[entry'.Level],
                                        entry'.Message \o <<"\n">>))
                       ELSE written
                  /\ UNCHANGED <<ret, pc>>
    /\ UNCHANGED <<doc, stamp, out, token, result, opts, fetcher, pod, picked,
                   req, stream, wrote, filterLevel>>

\* return scanner.Err() at the end of the reader
FilterEnd ==
    /\ pc = "filter"
    /\ pos = Len(stream)
    /\ \E readOk \in BOOLEAN : ret' = IF readOk THEN "nil" ELSE "read error"
    /\ pc' = "returned"
    /\ UNCHANGED <<line, doc, stamp, entry, out, token, result, opts, fetcher,
                   pod, picked, req, stream, pos, written, wrote, filterLevel>>


(***************************************************************************)
(* The logs command, or GetLogs of a fetcher set up by its caller.         *)
(***************************************************************************)
InitFetch ==
    /\ \/ opts \in CommandOptions /\ fetcher = NoFetcher /\ pc = "command"
       \/ opts = NoOptions /\ fetcher \in Fetchers /\ pc = "fetcher"
    /\ pod \in Pods
    /\ doc \in StreamDocs
    /\ stamp = NoStamp
    /\ line = <<>> /\ entry = NoEntry /\ out = <<>>
    /\ token = <<>> /\ result = NoResult
    /\ picked = "" /\ req = NoRequest
    /\ stream = <<>> /\ pos = 0 /\ written = <<>> /\ wrote = NoWrite
    /\ filterLevel = DEBUG /\ ret = ""

NextFetch == RunLogs \/ GetLogs \/ ScanWrite \/ EndOfStream

SpecFetch == InitFetch /\ [][NextFetch]_vars

(***************************************************************************)
(* FilterAndFormatLogs(reader, writer, filterLevel).                       *)
(***************************************************************************)
InitFilter ==
    /\ stream \in Streams
    /\ filterLevel \in LogLevels
    /\ doc \in StreamDocs
    /\ stamp = NoStamp
    /\ pc = "filter"
    /\ line = <<>> /\ entry = NoEntry /\ out = <<>>
    /\ token = <<>> /\ result = NoResult
    /\ opts = NoOptions /\ fetcher = NoFetcher /\ pod = NoPod
    /\ picked = "" /\ req = NoRequest
    /\ pos = 0 /\ written = <<>> /\ wrote = NoWrite /\ ret = ""

NextFilter == FilterLine \/ FilterEnd

SpecFilter == InitFilter /\ [][NextFilter]_vars

(***************************************************************************)
(* Claims about the logs command, LogWriter and FilterAndFormatLogs.       *)
(***************************************************************************)
\* the logs command was run (the fetcher was not set up by another caller)
ByCommand == opts # NoOptions

\* the trimmed non-blank lines among the first n lines of the reader, in order
NonBlankUpTo(n) ==
    LET F[k \in 0..n] ==
            IF k = 0 THEN <<>>
            ELSE IF TrimSpace(stream[k]) = <<>> THEN F[k - 1]
            ELSE Append(F[k - 1], TrimSpace(stream[k]))
    IN  F[n]

\* C22: when the logs command is run with --level L, every line it writes
\* comes from a log line whose classified severity is at or above L.
C22_LevelFilter ==
    ByCommand =>
      \A k \in 1..Len(written) :
          ParseLogEntry(NonBlankUpTo(pos)[k]).Level >= ParseLogLevel(opts.level).level

\* C23: when the logs command is run with --container C, the log request is
\* made for container C, with no automatic selection and no prompt.
C23_ContainerFlag ==
    (ByCommand /\ opts.container # "" /\ pc \in {"stream", "returned"}) =>
      /\ picked = ""
      /\ req # NoRequest => req.Container = opts.container

\* what a filter that forwards the lines at or above filterLevel writes for
\* the first n lines of the reader
Forwarded(n) ==
    LET F[k \in 0..n] ==
            IF k = 0 THEN <<>>
            ELSE IF ParseLogEntry(stream[k]).Level >= filterLevel
            THEN Append(F[k - 1],
                        Span(logLevelColors[ParseLogEntry(stream[k]).Level],
                             ParseLogEntry(stream[k]).Message \o <<"\n">>))
            ELSE F[k - 1]
    IN  F[n]

\* C24: FilterAndFormatLogs writes exactly the lines of the input whose
\* classified severity is at or above filterLevel, each once and in input
\* order, and never a line below it; unless the reader fails, every line of
\* the input has been considered when it returns (so with threshold DEBUG
\* every input line is written).
C24_FilterInOrder ==
    pc \in {"filter", "returned"} =>
      /\ written = Forwarded(pos)
      /\ (pc = "returned" /\ ret # "read error") => pos = Len(stream)

\* C25: LogWriter.Write reports n = len(p) for every p; for an empty or
\* whitespace-only p nothing is written and no error is reported; otherwise
\* exactly one line is written, the rendering of the trimmed input followed
\* by a single newline (nothing when the wrapped writer refuses it).
C25_WriteContract ==
    [][(pc = "stream" /\ pos' = pos + 1) =>
         LET p == stream[pos + 1]
         IN  /\ wrote'.called /\ wrote'.len = Len(p) /\ wrote'.n = Len(p)
             /\ TrimSpace(p) = <<>> => (written' = written /\ ~wrote'.err)
             /\ wrote'.err => written' = written
             /\ (TrimSpace(p) # <<>> /\ ~wrote'.err) =>
                  \E order \in Orders(DOMAIN doc), norder \in NestedOrders :
                      written' = Append(written,
                                        Cat(ParseLog(TrimSpace(p), order, norder),
                                            Plain(<<"\n">>)))]_vars

\* an empty line was skipped and a padded line was written trimmed
C25_Witness ==
    /\ pos = 2
    /\ stream[1] = <<>>
    /\ stream[2] = <<" ", "o", "k", " ">>
    /\ wrote = [len |-> 4, n |-> 4, err |-> FALSE, called |-> TRUE]
    /\ Len(written) = 1
    /\ written[1][Len(written[1])].text = <<" ", "o", "k", "\n">>

\* the fetcher was set up by its caller with this ContainerName
GivenName == IF ByCommand THEN "" ELSE IF picked = "" THEN fetcher.ContainerName ELSE ""

InSpec(name) == \E i \in 1..Len(pod.containers) : pod.containers[i] = name

\* C26: if the fetcher's ContainerName is not the name of a container in the
\* pod's spec, GetLogs returns an error before the stream is opened and
\* writes nothing; if the name is in the spec and Previous is false, GetLogs
\* opens the stream and returns no error.
C26_ContainerValidation ==
    (~ByCommand /\ pc \in {"stream", "returned"}) =>
      /\ ~InSpec(GivenName) =>
           (pc = "returned" /\ ret # "nil" /\ ~req.open /\ written = <<>>)
      /\ (InSpec(GivenName) /\ ~fetcher.Previous) =>
           (req.open /\ (pc = "returned" => ret = "nil"))

\* C26 as the code has it: a non-empty ContainerName that is not in the
\* pod's spec makes GetLogs return an error before any log request, with
\* nothing written (an empty ContainerName is resolved by
\* getSingleContainerName instead).  With the name in the spec and Previous
\* false no container check fails: the log stream of that container is
\* requested unless the pod cannot be fetched, and once the stream is open
\* GetLogs returns nil unless reading the stream or writing a line fails.
C26_ValidationBeforeStream ==
    (~ByCommand /\ pc \in {"stream", "returned"}) =>
      /\ (GivenName # "" /\ ~InSpec(GivenName)) =>
           (pc = "returned" /\ ret # "nil" /\ req = NoRequest /\ written = <<>>)
      /\ (InSpec(GivenName) /\ ~fetcher.Previous) =>
           /\ ret \in {"", "nil", "error fetching pod details",
                       "error opening log stream", "error reading log stream",
                       "error reading log stream: token too long",
                       "error writing log line"}
           /\ req = NoRequest <=> ret = "error fetching pod details"
           /\ req # NoRequest => req.Container = GivenName
           /\ req.open <=> ret \notin {"error fetching pod details",
                                       "error opening log stream"}

\* a fetcher for a container the pod does not have was refused
C26_Witness ==
    /\ ~ByCommand
    /\ fetcher.ContainerName = "ghost"
    /\ pod.containers = <<"app", "sidecar">>
    /\ pc = "returned"
    /\ ret = "container not found"
    /\ req = NoRequest /\ written = <<>>

\* the restart count the pod's status lists for the container, -1 for none
RestartsOf(name) ==
    LET at == {i \in 1..Len(pod.statuses) : pod.statuses[i].Name = name}
    IN  IF at = {} THEN 0 - 1
        ELSE pod.statuses[CHOOSE i \in at : \A j \in at : i <= j].RestartCount

\* C27: with Previous set, GetLogs opens the log stream only if the status
\* of the selected container has a restart count above zero; with a count of
\* zero or no status entry it returns an error before any log request and
\* writes nothing.  hasPreviousContainer answers restartCount > 0 for a
\* listed container and fails for one that is not listed.
C27_PreviousNeedsRestart ==
    /\ (fetcher.Previous /\ pc \in {"stream", "returned"}) =>
         /\ req.open => RestartsOf(req.Container) > 0
         /\ RestartsOf(fetcher.ContainerName) <= 0 =>
              (pc = "returned" /\ ret \notin {"", "nil"}
                 /\ req = NoRequest /\ written = <<>>)
    /\ \A name \in {"app", "sidecar", "ghost"} :
         hasPreviousContainer(name, TRUE)
           = [has |-> RestartsOf(name) > 0, err |-> RestartsOf(name) < 0]

\* the previous logs of a container that never restarted were refused
C27_Witness ==
    /\ fetcher = [ContainerName |-> "sidecar", Follow |-> FALSE, Previous |-> TRUE]
    /\ RestartsOf("sidecar") = 0
    /\ pc = "returned"
    /\ ret = "no previous terminated container found"
    /\ req = NoRequest /\ written = <<>>

\* C29: GetLogs processes the stream strictly in order: for the lines
\* l1..ln it writes one formatted line per non-blank li, in the same order,
\* and skips the blank ones; it stops only at the first failed write, with
\* an error and nothing written after it, or when reading the stream fails,
\* and it returns nil when the stream has ended with every line processed.
C29_InOrder ==
    (req.open /\ pc \in {"stream", "returned"}) =>
      /\ Len(written) <= Len(NonBlankUpTo(pos))
      /\ \A k \in 1..Len(written) :
           \E order \in Orders(DOMAIN doc), norder \in NestedOrders :
               written[k] = Cat(ParseLog(NonBlankUpTo(pos)[k], order, norder),
                                Plain(<<"\n">>))
      /\ Len(written) < Len(NonBlankUpTo(pos)) =>
           /\ pc = "returned" /\ ret = "error writing log line"
           /\ Len(written) = Len(NonBlankUpTo(pos)) - 1
           /\ TrimSpace(stream[pos]) # <<>>
      /\ pc = "returned" =>
           /\ ret \in {"nil", "error writing log line", "error reading log stream"}
           /\ ret = "nil" => pos = Len(stream)

\* C30: classifying and rendering keep no state between lines and leave the
\* lookup tables as they are: a line that is processed again, whatever was
\* processed before it, gives the same entry and the same output.
C30_NoStateBetweenLines ==
    [][(pc = "stream" /\ pos' = pos + 1 /\ TrimSpace(stream[pos + 1]) # <<>>
          /\ line' = line)
         => (entry' = entry /\ out' = out)]_vars

====
